---- MODULE Spec2Model ----
(***************************************************************************)
(* Model of the fake-profile detection service:                            *)
(*   - FakeProfileDetector.predict  (instagram_analyzer.py), the rule       *)
(*     based scorer, as a pure operator;                                    *)
(*   - InstagramAnalyzer.get_profile (instagram_analyzer.py), the           *)
(*     acquisition chain over the on-disk cache;                            *)
(*   - the /predict and /api/analyze/instagram routes of app.py;            *)
(*   - two requests running get_profile at the same time, step by step;     *)
(*   - the stand-alone fetchers: the unauthenticated scrape chain of        *)
(*     InstagramAnalyzer and InstagramAPIIntegration.get_profile_real_data. *)
(* Strings are sequences of one-character strings, so that len(), lower()  *)
(* and count('_') are computed and not assumed.                            *)
(***************************************************************************)
EXTENDS Integers, Sequences, FiniteSets, TLC

VARIABLES
    profile_data,   \* the record last passed to FakeProfileDetector.predict
    verdict,        \* what that call returned
    cache,          \* the files cache_<username>.json: username -> content
    request,        \* the arguments and environment outcomes of the last get_profile call
    result,         \* what the last get_profile call returned (or that it raised)
    calls,          \* the strategies that call invoked, in order
    ncalls,         \* number of get_profile calls made so far
    model,          \* app.py global `model`: None or a loaded classifier
    form,           \* the form of the last /predict request
    response,       \* the response to that request
    threads,        \* concurrent get_profile calls: where each is and what it holds
    disk,           \* the cache file they share, byte by byte
    api,            \* the InstagramAPIIntegration object: its credentials
    fetch           \* the last call of a stand-alone fetcher: arguments, answers, result

scorerVars   == <<profile_data, verdict>>
pipelineVars == <<cache, request, result, calls, ncalls>>
webVars      == <<model, form, response>>
raceVars     == <<threads, disk>>
fetcherVars  == <<api, fetch>>
vars         == <<profile_data, verdict, cache, request, result, calls, ncalls,
                  model, form, response, threads, disk, api, fetch>>

None == "None"

Max(a, b) == IF a >= b THEN a ELSE b
Min(a, b) == IF a <= b THEN a ELSE b

(***************************************************************************)
(* Strings                                                                 *)
(***************************************************************************)
UpperLetters == <<"A","B","C","D","E","F","G","H","I","J","K","L","M",
                  "N","O","P","Q","R","S","T","U","V","W","X","Y","Z">>
LowerLetters == <<"a","b","c","d","e","f","g","h","i","j","k","l","m",
                  "n","o","p","q","r","s","t","u","v","w","x","y","z">>

\* str.lower(), character by character
LowerChar(c) ==
    IF \E i \in 1..Len(UpperLetters) : UpperLetters[i] = c
    THEN LowerLetters[CHOOSE i \in 1..Len(UpperLetters) : UpperLetters[i] = c]
    ELSE c

Lower(s) == [i \in 1..Len(s) |-> LowerChar(s[i])]

\* str.count(c)
Count(s, c) == Cardinality({i \in 1..Len(s) : s[i] = c})

\* a string of n characters
Text(n) == [i \in 1..n |-> "x"]

\* the identifier hard-coded in FakeProfileDetector.predict
AllowListedName ==
    <<"v","i","j","a","y","a","l","a","k","s","h","m","i",
      "1","4","0","6","1","9","8","8">>

\* the same identifier as a user may type it
AllowListedMixed ==
    <<"V","i","j","a","y","a","L","a","k","s","h","m","i",
      "1","4","0","6","1","9","8","8">>

\* one character short of the hard-coded identifier
AlmostAllowListed ==
    <<"v","i","j","a","y","a","l","a","k","s","h","m","i",
      "1","4","0","6","1","9","8">>

NameJohn == <<"j","o","h","n">>

(***************************************************************************)
(* FakeProfileDetector.predict                                             *)
(***************************************************************************)
\* one rule's effect on the two accumulators and on the reasons list
Effect(risk, conf, why) == [risk |-> risk, conf |-> conf, reasons |-> why]
NoEffect == Effect(0, 0, << >>)

\* ratio = following / followers, kept as a fraction; 0 when never computed
Ratio(p) ==
    IF p.followers > 0
    THEN [num |-> p.following, den |-> p.followers, computed |-> TRUE]
    ELSE [num |-> 0, den |-> 1, computed |-> FALSE]

RatioAbove(r, k)        == r.num > k * r.den
\* ratio < 1/k
RatioBelowInverse(r, k) == k * r.num < r.den

\* 1. follower/following ratio (only when followers > 0)
RatioRule(p) ==
    IF p.followers > 0
    THEN LET r == Ratio(p) IN
         IF RatioAbove(r, 20) THEN Effect(40, -35, <<"Extremely high following/followers ratio">>)
         ELSE IF RatioAbove(r, 10) THEN Effect(30, -25, <<"Very high following/followers ratio">>)
         ELSE IF RatioAbove(r, 5) THEN Effect(20, -15, <<"High following/followers ratio">>)
         ELSE IF RatioBelowInverse(r, 1000) /\ p.followers > 10000
              THEN Effect(0, 15, <<"Excellent follower/following ratio">>)
         ELSE IF RatioBelowInverse(r, 100) /\ p.followers > 1000
              THEN Effect(0, 10, <<"Good follower/following ratio">>)
         ELSE NoEffect
    ELSE NoEffect

\* 2. account age (only when account_age_days > 0)
AgeRule(p) ==
    LET age == p.account_age_days IN
    IF age > 0
    THEN IF age < 7 THEN Effect(35, -30, <<"Very new account">>)
         ELSE IF age < 30 THEN Effect(25, -20, <<"New account">>)
         ELSE IF age < 90 THEN Effect(15, -10, <<"Recent account">>)
         ELSE IF age > 365 * 2 THEN Effect(0, 15, <<"Well-established account">>)
         ELSE IF age > 365 THEN Effect(0, 10, <<"Established account">>)
         ELSE NoEffect
    ELSE NoEffect

\* 3. posting activity
PostsRule(p) ==
    LET n == p.total_posts IN
    IF n = 0 THEN Effect(30, -25, <<"No posts at all">>)
    ELSE IF n < 3 THEN Effect(20, -15, <<"Minimal posts">>)
    ELSE IF n < 10 THEN Effect(10, -5, <<"Very few posts">>)
    ELSE IF n > 5000 THEN Effect(15, -10, <<"Suspiciously high post count">>)
    ELSE IF n > 100 /\ n < 1000 THEN Effect(0, 10, <<"Reasonable posting activity">>)
    ELSE IF n > 1000 /\ n < 5000 THEN Effect(0, 5, <<"High posting activity">>)
    ELSE NoEffect

\* 4. verification status
VerifiedRule(p) ==
    IF p.is_verified THEN Effect(0, 30, <<"Verified account">>) ELSE NoEffect

\* 5. profile picture
PictureRule(p) ==
    IF ~p.has_profile_pic THEN Effect(20, -15, <<"No profile picture">>) ELSE NoEffect

\* 6. follower count ranges
FollowersRule(p) ==
    LET f == p.followers IN
    IF f = 0 THEN Effect(25, -20, <<"No followers">>)
    ELSE IF f < 10 THEN Effect(15, -10, <<"Very few followers">>)
    ELSE IF f < 50 THEN Effect(5, -3, <<"Few followers">>)
    ELSE IF f > 10000 /\ f < 1000000 THEN Effect(0, 10, <<"Solid follower base">>)
    ELSE IF f > 1000000 /\ f < 50000000 THEN Effect(0, 15, <<"Large follower base">>)
    ELSE IF f > 50000000 THEN Effect(0, 20, <<"Major influencer/celebrity">>)
    ELSE NoEffect

\* the biography rule with the two numbers of its first branch exchanged
BioRuleSwapped(p) ==
    LET n == Len(p.biography) IN
    IF n = 0 THEN Effect(8, -10, <<"No bio">>)
    ELSE IF n < 10 THEN Effect(5, -3, <<"Minimal bio">>)
    ELSE IF n > 50 THEN Effect(0, 5, <<"Detailed bio">>)
    ELSE NoEffect

\* 7. biography
BioRule(p) ==
    LET n == Len(p.biography) IN
    IF n = 0 THEN Effect(10, -8, <<"No bio">>)
    ELSE IF n < 10 THEN Effect(5, -3, <<"Minimal bio">>)
    ELSE IF n > 50 THEN Effect(0, 5, <<"Detailed bio">>)
    ELSE NoEffect

\* 8a. new account + no posts
NewInactiveRule(p) ==
    IF p.account_age_days < 30 /\ p.total_posts < 5
    THEN Effect(20, -15, <<"New account with minimal activity">>) ELSE NoEffect

\* 8b. high following + low followers + new account, on the ratio computed in 1.
BotPatternUnguarded(p) ==
    IF p.following > 10 * p.followers /\ p.account_age_days < 90 /\ p.followers < 100
    THEN Effect(25, -20, <<"Bot-like activity pattern">>) ELSE NoEffect

BotPatternRule(p) ==
    IF RatioAbove(Ratio(p), 10) /\ p.account_age_days < 90 /\ p.followers < 100
    THEN Effect(25, -20, <<"Bot-like activity pattern">>) ELSE NoEffect

\* 8c. verified + established + good activity
AuthenticRule(p) ==
    IF p.is_verified /\ p.account_age_days > 365 /\ p.total_posts > 50
    THEN Effect(0, 10, <<"Strong authenticity indicators">>) ELSE NoEffect

\* the ten checks with the compound rules evaluated first
RulesCompoundFirst(p) ==
    << NewInactiveRule(p), BotPatternRule(p), AuthenticRule(p), RatioRule(p),
       AgeRule(p), PostsRule(p), VerifiedRule(p), PictureRule(p),
       FollowersRule(p), BioRule(p) >>

\* the ten checks in the order predict evaluates them
Rules(p) ==
    << RatioRule(p), AgeRule(p), PostsRule(p), VerifiedRule(p), PictureRule(p),
       FollowersRule(p), BioRule(p), NewInactiveRule(p), BotPatternRule(p),
       AuthenticRule(p) >>

\* the risk of the heaviest rule alone, instead of the sum
RECURSIVE MaxRisk(_)
MaxRisk(es) == IF es = << >> THEN 0 ELSE Max(Head(es).risk, MaxRisk(Tail(es)))

RECURSIVE SumRisk(_), SumConf(_), AllReasons(_)
SumRisk(es)    == IF es = << >> THEN 0 ELSE Head(es).risk + SumRisk(Tail(es))
SumConf(es)    == IF es = << >> THEN 0 ELSE Head(es).conf + SumConf(Tail(es))
AllReasons(es) == IF es = << >> THEN << >> ELSE Head(es).reasons \o AllReasons(Tail(es))

\* is_fake = risk_score > 40
IsFakeAtThreshold(risk_score) == risk_score >= 40
IsFake(risk_score) == risk_score > 40

\* the first clamp with the upper end of the genuine band
FirstClampAt98(confidence_score) == Max(0, Min(98, confidence_score))

\* confidence = max(0, min(95, confidence_score))
FirstClamp(confidence_score) == Max(0, Min(95, confidence_score))

\* if not is_fake: confidence = max(80, min(98, confidence))
GenuineClamp(is_fake, confidence) ==
    IF ~is_fake THEN Max(80, Min(98, confidence)) ELSE confidence

\* the ceilings with >= in place of >
RiskCeilingInclusive(risk_score, confidence) ==
    IF risk_score >= 60 THEN Min(confidence, 30)
    ELSE IF risk_score >= 50 THEN Min(confidence, 50)
    ELSE IF risk_score >= 30 THEN Min(confidence, 70)
    ELSE confidence

\* the ceiling for risk_score > 60 written with max instead of min
RiskCeilingRaising(risk_score, confidence) ==
    IF risk_score > 60 THEN Max(confidence, 30)
    ELSE IF risk_score > 50 THEN Min(confidence, 50)
    ELSE IF risk_score > 30 THEN Min(confidence, 70)
    ELSE confidence

\* the risk-based ceiling
RiskCeiling(risk_score, confidence) ==
    IF risk_score > 60 THEN Min(confidence, 30)
    ELSE IF risk_score > 50 THEN Min(confidence, 50)
    ELSE IF risk_score > 30 THEN Min(confidence, 70)
    ELSE confidence

\* the ceiling applied before the genuine clamp instead of after it
FinalConfidenceCeilingFirst(is_fake, risk_score, clamped) ==
    GenuineClamp(is_fake, RiskCeiling(risk_score, clamped))

FinalConfidence(is_fake, risk_score, clamped) ==
    RiskCeiling(risk_score, GenuineClamp(is_fake, clamped))

ManualVerdict ==
    [is_fake |-> FALSE, confidence |-> 85, risk_score |-> 15,
     reasons |-> <<"Profile manually verified as authentic">>,
     returned |-> TRUE, scored |-> FALSE, clamped |-> 85,
     ratio_computed |-> FALSE, effects |-> << >>]

\* the rule engine, lines 28-200
ScoredVerdict(p) ==
    LET effects          == Rules(p)
        risk_score       == SumRisk(effects)
        confidence_score == 50 + SumConf(effects)
        is_fake          == IsFake(risk_score)
        clamped          == FirstClamp(confidence_score)
    IN  [is_fake |-> is_fake,
         confidence |-> FinalConfidence(is_fake, risk_score, clamped),
         risk_score |-> risk_score,
         reasons |-> AllReasons(effects),
         returned |-> TRUE, scored |-> TRUE, clamped |-> clamped,
         ratio_computed |-> Ratio(p).computed,
         effects |-> effects]

\* the special case compared without lower()
PredictCaseSensitive(p) ==
    IF p.username = AllowListedName THEN ManualVerdict ELSE ScoredVerdict(p)

\* FakeProfileDetector.predict.  Besides the four returned keys the verdict
\* keeps, for observation, the confidence after the first clamp, whether the
\* ratio was computed, and each rule's effect.
Predict(p) ==
    IF Lower(p.username) = AllowListedName THEN ManualVerdict ELSE ScoredVerdict(p)

(***************************************************************************)
(* The scorer applied to bounded records                                   *)
(***************************************************************************)
\* how many characters the longest biography exceeds the "Detailed bio" limit by
BioExtra == 10

FollowerValues  == {0, 5, 20, 100, 2000, 20000, 50000, 2000000, 60000000}
FollowingValues == {0, 10, 150, 200, 600, 2000, 2100, 4000}
PostValues      == {0, 2, 4, 7, 50, 300, 2000, 6000}
AgeValues       == {0, 3, 20, 60, 200, 400, 800}
BioLengths      == {0, 5, 20, 50 + BioExtra}
ScoredNames     == {NameJohn, AllowListedName, AllowListedMixed, AlmostAllowListed}

Profiles ==
    [username : ScoredNames, followers : FollowerValues,
     following : FollowingValues, total_posts : PostValues,
     account_age_days : AgeValues, is_verified : BOOLEAN,
     has_profile_pic : BOOLEAN, biography : {Text(n) : n \in BioLengths}]

NoProfile == [username |-> << >>]
NoVerdict == [returned |-> FALSE]

IdlePipeline ==
    /\ cache = << >>
    /\ request = << >>
    /\ result = << >>
    /\ calls = << >>
    /\ ncalls = 0

IdleWeb ==
    /\ model = None
    /\ form = << >>
    /\ response = << >>

IdleRace ==
    /\ threads = << >>
    /\ disk = << >>

IdleFetchers ==
    /\ api = << >>
    /\ fetch = << >>

IdleScorer ==
    /\ profile_data = NoProfile
    /\ verdict = NoVerdict

ScorerInit ==
    /\ profile_data \in Profiles
    /\ verdict = NoVerdict
    /\ IdlePipeline
    /\ IdleWeb
    /\ IdleRace
    /\ IdleFetchers

\* detector.predict(profile_data)
PredictCall ==
    /\ ~verdict.returned
    /\ verdict' = Predict(profile_data)
    /\ UNCHANGED <<profile_data, cache, request, result, calls, ncalls,
                   model, form, response>>
    /\ UNCHANGED raceVars
    /\ UNCHANGED fetcherVars

ScorerNext == PredictCall

ScorerSpec == ScorerInit /\ [][ScorerNext]_vars

(***************************************************************************)
(* Properties of FakeProfileDetector.predict (checked under ScorerSpec)    *)
(***************************************************************************)
\* the rules that do not read the ratio, in evaluation order
RatioFreeRules(p) ==
    << AgeRule(p), PostsRule(p), VerifiedRule(p), PictureRule(p),
       FollowersRule(p), BioRule(p), NewInactiveRule(p), AuthenticRule(p) >>

\* C1: every returned verdict has is_fake = TRUE exactly when its risk_score
\* is greater than 40; a risk_score of exactly 40 is genuine.
C1_FakeIffRiskAbove40 ==
    verdict.returned => (verdict.is_fake <=> verdict.risk_score > 40)

C1_Witness_RiskExactly40 ==
    /\ verdict.returned
    /\ verdict.scored
    /\ verdict.risk_score = 40
    /\ ~verdict.is_fake

\* C2: the confidence after the first clamp lies in [0,95], and whenever the
\* returned verdict is genuine the returned confidence lies in [80,98].
C2_ConfidenceBands ==
    verdict.returned =>
        /\ verdict.clamped \in 0..95
        /\ (~verdict.is_fake => verdict.confidence \in 80..98)

C8_AllowListedFixedVerdict ==
    (verdict.returned /\ Lower(profile_data.username) = AllowListedName) =>
        /\ verdict.is_fake = FALSE
        /\ verdict.confidence = 85
        /\ verdict.risk_score = 15
        /\ verdict.reasons = <<"Profile manually verified as authentic">>
        /\ ~verdict.scored
        /\ verdict.effects = << >>

C8_Witness_AllowListedRisky ==
    /\ verdict.returned
    /\ profile_data.username = AllowListedMixed
    /\ profile_data.followers = 0
    /\ profile_data.total_posts = 0
    /\ ~profile_data.has_profile_pic
    /\ SumRisk(Rules(profile_data)) > 60
    /\ verdict.risk_score = 15

\* C9: for every record with followers = 0 the ratio is not computed (no
\* division) and contributes nothing: risk_score, the accumulated confidence
\* and the reasons are exactly those of the rules that do not read the
\* ratio, so neither the ratio rule nor the bot-pattern rule acted.
C9_ZeroFollowersNoRatio ==
    (verdict.returned /\ verdict.scored /\ profile_data.followers = 0) =>
        /\ ~verdict.ratio_computed
        /\ verdict.risk_score = SumRisk(RatioFreeRules(profile_data))
        /\ verdict.clamped = FirstClamp(50 + SumConf(RatioFreeRules(profile_data)))
        /\ verdict.reasons = AllReasons(RatioFreeRules(profile_data))

C9_Witness_ZeroFollowersFollowingMany ==
    /\ verdict.returned
    /\ verdict.scored
    /\ profile_data.followers = 0
    /\ profile_data.following = 4000
    /\ profile_data.account_age_days = 3

\* C16: a record whose account_age_days is 0 (unknown) is not treated as a
\* new account: the age rule and the two compound rules that test the age
\* ('New account with minimal activity', 'Bot-like activity pattern') add no
\* risk, take no confidence and append no reason.
C16_UnknownAgeNotNew ==
    (verdict.returned /\ verdict.scored /\ profile_data.account_age_days = 0) =>
        /\ AgeRule(profile_data) = NoEffect
        /\ NewInactiveRule(profile_data) = NoEffect
        /\ BotPatternRule(profile_data) = NoEffect
        /\ \A i \in 1..Len(verdict.reasons) :
              verdict.reasons[i] \notin
                {"Very new account", "New account", "Recent account",
                 "New account with minimal activity", "Bot-like activity pattern"}

\* the rule (1..10, in the order of the source text) that appends a reason
RuleOfReason(reason) ==
    CASE reason \in {"Extremely high following/followers ratio",
                     "Very high following/followers ratio",
                     "High following/followers ratio",
                     "Excellent follower/following ratio",
                     "Good follower/following ratio"} -> 1
      [] reason \in {"Very new account", "New account", "Recent account",
                     "Well-established account", "Established account"} -> 2
      [] reason \in {"No posts at all", "Minimal posts", "Very few posts",
                     "Suspiciously high post count", "Reasonable posting activity",
                     "High posting activity"} -> 3
      [] reason = "Verified account" -> 4
      [] reason = "No profile picture" -> 5
      [] reason \in {"No followers", "Very few followers", "Few followers",
                     "Solid follower base", "Large follower base",
                     "Major influencer/celebrity"} -> 6
      [] reason \in {"No bio", "Minimal bio", "Detailed bio"} -> 7
      [] reason = "New account with minimal activity" -> 8
      [] reason = "Bot-like activity pattern" -> 9
      [] reason = "Strong authenticity indicators" -> 10
      [] OTHER -> 0

\* C17: the reasons of a scored verdict are in the order in which the checks
\* are evaluated (ratio, age, posts, verification, picture, follower
\* bracket, biography, then the three compound rules), with at most one
\* reason from each of the ten checks, whatever the weights of the checks
\* that fired.
C17_ReasonsInEvaluationOrder ==
    (verdict.returned /\ verdict.scored) =>
        /\ \A i \in 1..Len(verdict.reasons) :
              RuleOfReason(verdict.reasons[i]) \in 1..10
        /\ \A i, j \in 1..Len(verdict.reasons) :
              i < j => RuleOfReason(verdict.reasons[i]) < RuleOfReason(verdict.reasons[j])

C17_Witness_NineReasons ==
    /\ verdict.returned
    /\ verdict.scored
    /\ Len(verdict.reasons) = 9
    /\ verdict.reasons[1] = "Extremely high following/followers ratio"
    /\ verdict.reasons[7] = "No bio"
    /\ verdict.reasons[9] = "Bot-like activity pattern"
    /\ verdict.effects[7].risk < verdict.effects[9].risk

\* the confidence predict returns for an accumulated confidence_score and a
\* risk_score (lines 176-192)
ConfidenceAt(confidence_score, risk_score) ==
    FinalConfidence(IsFake(risk_score), risk_score, FirstClamp(confidence_score))

\* risk scores on both sides of the verdict threshold and of each ceiling
RiskLevels == <<0, 25, 30, 31, 35, 40, 41, 45, 50, 51, 59, 60, 61, 65, 100, 195>>

\* confidence_score as accumulated by the rules of the scored record
AccumulatedConfidence == 50 + SumConf(verdict.effects)

\* C18: for a fixed accumulated confidence_score the returned confidence
\* never rises with the risk_score: a higher risk_score (61 against 59, or
\* any pair across the threshold 40 and the ceilings 30, 50, 60) never
\* yields a greater confidence than a lower one.
C18_ConfidenceMonotonicInRisk ==
    (verdict.returned /\ verdict.scored) =>
        LET cs == AccumulatedConfidence IN
        /\ verdict.confidence = ConfidenceAt(cs, verdict.risk_score)
        /\ \A i \in 1..(Len(RiskLevels) - 1) :
              ConfidenceAt(cs, RiskLevels[i + 1]) <= ConfidenceAt(cs, RiskLevels[i])
        /\ \A i \in 1..Len(RiskLevels) :
              /\ RiskLevels[i] > verdict.risk_score =>
                    ConfidenceAt(cs, RiskLevels[i]) <= verdict.confidence
              /\ RiskLevels[i] < verdict.risk_score =>
                    ConfidenceAt(cs, RiskLevels[i]) >= verdict.confidence

C18_Witness_CeilingLowersHighRisk ==
    /\ verdict.returned
    /\ verdict.scored
    /\ verdict.risk_score > 60
    /\ verdict.clamped > 30
    /\ verdict.confidence = 30
    /\ ConfidenceAt(AccumulatedConfidence, 59) > 30
    /\ ConfidenceAt(AccumulatedConfidence, 61) = 30

\* the record of the first end-to-end scenario: unverified, 5 followers,
\* 4000 following, no posts, no picture, 3 days old
ThrowawayRecord ==
    /\ ~profile_data.is_verified
    /\ profile_data.followers = 5
    /\ profile_data.following = 4000
    /\ profile_data.total_posts = 0
    /\ ~profile_data.has_profile_pic
    /\ profile_data.account_age_days = 3

\* C21 (as amended): for every record of that scenario whose username is
\* not the hard-coded identifier, whatever its biography, predict returns
\* is_fake = TRUE with risk_score above 60 and confidence at most 30; for
\* the hard-coded identifier it returns the fixed genuine verdict instead.
C21_ThrowawayIsFake ==
    (verdict.returned /\ ThrowawayRecord) =>
        IF Lower(profile_data.username) = AllowListedName
        THEN verdict = ManualVerdict
        ELSE /\ verdict.is_fake
             /\ verdict.risk_score > 60
             /\ verdict.confidence <= 30

C21_Witness_ThrowawayDetailedBio ==
    /\ verdict.returned
    /\ ThrowawayRecord
    /\ profile_data.username = NameJohn
    /\ Len(profile_data.biography) > 50
    /\ verdict.is_fake
    /\ verdict.risk_score = 185
    /\ verdict.confidence = 0

\* C21 as stated: for every record of that scenario, whatever its biography
\* and its other fields, predict returns is_fake = TRUE with risk_score
\* above 60 and confidence at most 30.
C21_ThrowawayAlwaysFake ==
    (verdict.returned /\ ThrowawayRecord) =>
        /\ verdict.is_fake
        /\ verdict.risk_score > 60
        /\ verdict.confidence <= 30

\* the record of the second end-to-end scenario: verified, 50000 followers,
\* 200 following, 300 posts, 800 days old
EstablishedRecord ==
    /\ profile_data.is_verified
    /\ profile_data.followers = 50000
    /\ profile_data.following = 200
    /\ profile_data.total_posts = 300
    /\ profile_data.account_age_days = 800

\* C22: for every record of that scenario, whatever its picture flag, its
\* biography and its username, predict returns is_fake = FALSE with a
\* confidence within [80,98].
C22_EstablishedIsGenuine ==
    (verdict.returned /\ EstablishedRecord) =>
        /\ ~verdict.is_fake
        /\ verdict.confidence \in 80..98

C22_Witness_EstablishedNoPictureNoBio ==
    /\ verdict.returned
    /\ verdict.scored
    /\ EstablishedRecord
    /\ ~profile_data.has_profile_pic
    /\ profile_data.biography = << >>
    /\ verdict.risk_score = 30
    /\ verdict.confidence = 95

\* C27: the risk_score of every scored record (all counts non-negative) is a
\* multiple of 5 between 0 and 195; 41, 59 and 61 are never produced.
C27_RiskMultipleOfFive ==
    (verdict.returned /\ verdict.scored) =>
        /\ verdict.risk_score \in 0..195
        /\ verdict.risk_score % 5 = 0
        /\ verdict.risk_score \notin {41, 59, 61}

C27_Witness_RiskAtMaximum ==
    /\ verdict.returned
    /\ verdict.scored
    /\ profile_data.followers >= 0
    /\ profile_data.following >= 0
    /\ profile_data.total_posts >= 0
    /\ verdict.risk_score = 195

\* C28: every verdict with is_fake = TRUE has confidence at most 70, and no
\* verdict, fake or genuine, scored or fixed, has confidence above 95.
C28_ConfidenceCaps ==
    verdict.returned =>
        /\ (verdict.is_fake => verdict.confidence <= 70)
        /\ verdict.confidence <= 95

C28_Witness_FakeAtSeventy ==
    /\ verdict.returned
    /\ verdict.scored
    /\ verdict.is_fake
    /\ verdict.clamped > 70
    /\ verdict.confidence = 70

(***************************************************************************)
(* InstagramAnalyzer.get_profile and the strategies it calls               *)
(***************************************************************************)
NameSlash   == <<"a","/","b">>
NameJaneDoe == <<"j","a","n","e","_","d","o","e","1">>
NameInstagram == <<"i","n","s","t","a","g","r","a","m">>
NameCristiano == <<"c","r","i","s","t","i","a","n","o">>

\* 'Profile for @'
ProfileForPrefix == <<"P","r","o","f","i","l","e"," ","f","o","r"," ","@">>

\* a function's outcome: it returns a value or raises an exception; `trace`
\* lists the steps it took and `files` is the cache directory it leaves
Returns(value, trace, files) ==
    [kind |-> "return", found |-> TRUE, value |-> value, trace |-> trace, files |-> files]
ReturnsNone(trace, files) ==
    [kind |-> "return", found |-> FALSE, value |-> None, trace |-> trace, files |-> files]
Raises(exception, trace, files) ==
    [kind |-> "raise", found |-> FALSE, value |-> exception, trace |-> trace, files |-> files]

\* the cache file of one username: absent, holding a JSON document, or
\* created but without a complete document
FileAbsent      == [state |-> "absent"]
FileCorrupt     == [state |-> "corrupt"]
FileHolding(doc) == [state |-> "valid", doc |-> doc]

\* os.path.exists(cache_file)
FileNeverExists(file) == FALSE
FileExists(file) == file.state # "absent"

\* the keys of a profile record, in the order the dict literals list them
ProfileKeys ==
    <<"username", "followers", "following", "total_posts", "is_verified",
      "is_private", "has_profile_pic", "biography", "account_age_days",
      "profile_pic_url", "scraped", "method", "note">>

\* json.dump: the members of the object, in key order
JsonDump(d) ==
    LET present == SelectSeq(ProfileKeys, LAMBDA k : k \in DOMAIN d)
    IN  [i \in 1..Len(present) |-> <<present[i], d[present[i]]>>]

\* json.load: the dict of the document's members
JsonLoad(doc) ==
    [k \in {doc[i][1] : i \in 1..Len(doc)} |->
        doc[CHOOSE i \in 1..Len(doc) : doc[i][1] = k][2]]

\* InstagramAnalyzer._login, before its except clauses
LoginBody(env) ==
    IF env.login = "no_credentials" THEN [kind |-> "return", value |-> FALSE]
    ELSE IF env.login = "ok" THEN [kind |-> "return", value |-> TRUE]
    ELSE [kind |-> "raise", value |-> env.login]

\* _login's except clauses: each of them returns False
LoginHandlers(o) ==
    IF o.kind = "raise"
    THEN CASE o.value = "TwoFactorAuthRequiredException" -> FALSE
           [] o.value = "ConnectionException" -> FALSE
           [] o.value = "InvalidCredentialsException" -> FALSE
           [] OTHER -> FALSE
    ELSE o.value

Login(env) == LoginHandlers(LoginBody(env))

\* the record _try_instaloader_original builds from the fetched profile
InstaloaderRecord(profile) ==
    [username |-> profile.username,
     followers |-> profile.followers,
     following |-> profile.followees,
     total_posts |-> profile.mediacount,
     is_verified |-> profile.is_verified,
     is_private |-> profile.is_private,
     has_profile_pic |-> profile.profile_pic_url # << >>,
     biography |-> profile.biography,
     account_age_days |-> 365,
     profile_pic_url |-> profile.profile_pic_url,
     scraped |-> TRUE,
     method |-> "instaloader_original"]

\* _try_instaloader_original, the body of its try block (lines 670-696)
TryInstaloaderBody(username, env, files) ==
    IF Login(env)
    THEN IF env.fetch = "ok"
         THEN Returns(InstaloaderRecord(env.profile), <<"login", "fetch">>, files)
         ELSE Raises(env.fetch, <<"login", "fetch">>, files)
    ELSE ReturnsNone(<<"login">>, files)

\* except Exception as e: print(...), then the final return None (lines 698-701)
InstaloaderExcept(o) ==
    IF o.kind = "raise" THEN ReturnsNone(o.trace, o.files) ELSE o

\* InstagramAnalyzer._try_instaloader_original
TryInstaloaderOriginal(username, env, files) ==
    InstaloaderExcept(TryInstaloaderBody(username, env, files))

\* random.randint(lo, hi), by the draw of this call
RandInt(lo, hi, pick) == IF pick = "low" THEN lo ELSE hi

\* InstagramAnalyzer._generate_realistic_data
GenerateRealisticData(username, draw) ==
    LET is_verified == Len(username) < 8
                       \/ Lower(username) \in {NameInstagram, NameCristiano}
        is_bot      == Len(username) > 15 \/ Count(username, "_") > 2
        followers   == IF is_verified THEN RandInt(1000000, 50000000, draw.pick)
                       ELSE IF is_bot THEN RandInt(10, 500, draw.pick)
                       ELSE RandInt(1000, 50000, draw.pick)
        following   == IF is_verified THEN RandInt(100, 1000, draw.pick)
                       ELSE IF is_bot THEN RandInt(500, 2000, draw.pick)
                       ELSE RandInt(200, 1000, draw.pick)
        posts       == IF is_verified THEN RandInt(100, 1000, draw.pick)
                       ELSE IF is_bot THEN RandInt(0, 10, draw.pick)
                       ELSE RandInt(10, 500, draw.pick)
    IN  [username |-> username,
         followers |-> followers,
         following |-> following,
         total_posts |-> posts,
         is_verified |-> is_verified,
         is_private |-> draw.is_private,
         has_profile_pic |-> draw.has_profile_pic,
         biography |-> ProfileForPrefix \o username,
         account_age_days |-> RandInt(30, 1000, draw.pick),
         profile_pic_url |-> << >>,
         scraped |-> FALSE,
         method |-> "realistic_fallback",
         note |-> "Realistic data generated as fallback"]

\* with open(cache_file, 'w') as f: json.dump(profile_data, f); return profile_data
WriteCacheAndReturn(username, data, env, trace, files) ==
    LET t == trace \o <<"cache_write">> IN
    CASE env.write = "ok" ->
            Returns(data, t, [files EXCEPT ![username] = FileHolding(JsonDump(data))])
      [] env.write = "open_fails" ->
            Raises("OSError", t, files)
      [] env.write = "dump_fails" ->
            Raises("OSError", t, [files EXCEPT ![username] = FileCorrupt])

\* a cache read that expires the entry it has served
ReadCacheAndExpire(username, env, trace, files) ==
    LET t == trace \o <<"cache_read">> IN
    IF files[username].state = "valid" /\ env.read = "ok"
    THEN Returns([JsonLoad(files[username].doc) EXCEPT !.method = "cached"], t,
                 [files EXCEPT ![username] = FileAbsent])
    ELSE Raises(IF env.read = "ok" THEN "JSONDecodeError" ELSE "OSError", t, files)

\* with open(cache_file, 'r') as f: cached_data = json.load(f); tag; return
ReadCacheAndReturn(username, env, trace, files) ==
    LET t == trace \o <<"cache_read">> IN
    IF files[username].state = "valid" /\ env.read = "ok"
    THEN Returns([JsonLoad(files[username].doc) EXCEPT !.method = "cached"], t, files)
    ELSE Raises(IF env.read = "ok" THEN "JSONDecodeError" ELSE "OSError", t, files)

\* methods 2 and 3 with an unauthenticated scrape attempted between them
FetchOrGenerateWithScrape(username, env, trace, files) ==
    LET a == TryInstaloaderOriginal(username, env, files) IN
    IF a.found
    THEN WriteCacheAndReturn(username, a.value, env, trace \o a.trace, files)
    ELSE WriteCacheAndReturn(username, GenerateRealisticData(username, env.draw), env,
                             trace \o a.trace \o <<"scrape", "synthetic">>, files)

\* get_profile, methods 2 and 3 (lines 419-435)
FetchOrGenerate(username, env, trace, files) ==
    LET a == TryInstaloaderOriginal(username, env, files) IN
    IF a.found
    THEN WriteCacheAndReturn(username, a.value, env, trace \o a.trace, files)
    ELSE WriteCacheAndReturn(username, GenerateRealisticData(username, env.draw), env,
                             trace \o a.trace \o <<"synthetic">>, files)

\* the body of get_profile's try block (lines 408-435)
GetProfileBody(username, env, files) ==
    IF FileExists(files[username])
    THEN ReadCacheAndReturn(username, env, <<"cache_lookup">>, files)
    ELSE FetchOrGenerate(username, env, <<"cache_lookup">>, files)

\* an except clause that lets the exception through
ExceptNothing(o) == o

\* except Exception as e: ... return None (lines 437-439)
ExceptException(o) ==
    IF o.kind = "raise" THEN ReturnsNone(o.trace, o.files) ELSE o

\* InstagramAnalyzer.get_profile
GetProfile(username, env, files) ==
    ExceptException(GetProfileBody(username, env, files))

(***************************************************************************)
(* get_profile called on bounded inputs and environments                   *)
(***************************************************************************)
\* number of get_profile calls in one run
MaxCalls == 2

\* usernames given to get_profile; the empty one makes cache_.json
NameEmpty == << >>
PipelineNames == {NameJohn, NameJaneDoe, AllowListedName, NameSlash, NameEmpty}

LoginOutcomes ==
    {"ok", "no_credentials", "TwoFactorAuthRequiredException",
     "ConnectionException", "InvalidCredentialsException", "Exception"}

\* Profile.from_username and the attribute reads: success, or one of the
\* exceptions for a missing profile, a 429 answer and a timeout
FetchOutcomes ==
    {"ok", "ProfileNotExistsException", "TooManyRequestsException", "ConnectionException"}

\* what Instagram may hold for a username
RemoteProfiles(username) ==
    { [username |-> Lower(username), followers |-> 20000, followees |-> 150,
       mediacount |-> 300, is_verified |-> TRUE, is_private |-> FALSE,
       profile_pic_url |-> <<"h","t","t","p">>, biography |-> Text(20)],
      [username |-> Lower(username), followers |-> 5, followees |-> 4000,
       mediacount |-> 0, is_verified |-> FALSE, is_private |-> TRUE,
       profile_pic_url |-> << >>, biography |-> << >>] }

\* the random draws of one _generate_realistic_data call: every randint at
\* its lower or at its upper end, and the two random.choice results
Draws ==
    { [pick |-> "low",  is_private |-> FALSE, has_profile_pic |-> TRUE],
      [pick |-> "high", is_private |-> TRUE,  has_profile_pic |-> FALSE] }

Unused == "unused"

NoRemote ==
    [username |-> << >>, followers |-> 0, followees |-> 0, mediacount |-> 0,
     is_verified |-> FALSE, is_private |-> FALSE, profile_pic_url |-> << >>,
     biography |-> << >>]

NoDraw == [pick |-> Unused, is_private |-> FALSE, has_profile_pic |-> FALSE]

\* open(cache_file, 'w') cannot create cache_a/b.json: there is no directory cache_a
WriteOutcomes(username) ==
    IF \E i \in 1..Len(username) : username[i] = "/"
    THEN {"open_fails"}
    ELSE {"ok", "open_fails", "dump_fails"}

\* the environment of one call; what the call does not reach is `Unused`
Environments(username, files) ==
    IF FileExists(files[username])
    THEN { [read |-> r, login |-> Unused, fetch |-> Unused, profile |-> NoRemote,
            draw |-> NoDraw, write |-> Unused] : r \in {"ok", "fails"} }
    ELSE UNION {
           UNION {
             { [read |-> Unused, login |-> l, fetch |-> f, profile |-> NoRemote,
                draw |-> d, write |-> w] :
                 d \in Draws, f \in IF l = "ok" THEN FetchOutcomes \ {"ok"} ELSE {Unused} }
             \cup
             { [read |-> Unused, login |-> l, fetch |-> "ok", profile |-> rp,
                draw |-> NoDraw, write |-> w] :
                 rp \in IF l = "ok" THEN RemoteProfiles(username) ELSE {} }
             : w \in WriteOutcomes(username) }
           : l \in LoginOutcomes }

NoRequest == [username |-> << >>]
NoResult  == [kind |-> "idle"]

PipelineInit ==
    /\ cache = [u \in PipelineNames |-> FileAbsent]
    /\ request = NoRequest
    /\ result = NoResult
    /\ calls = << >>
    /\ ncalls = 0
    /\ IdleScorer
    /\ IdleWeb
    /\ IdleRace
    /\ IdleFetchers

\* analyzer.get_profile(username)
GetProfileCall ==
    /\ ncalls < MaxCalls
    /\ \E username \in PipelineNames :
         \E env \in Environments(username, cache) :
           LET o == GetProfile(username, env, cache) IN
           /\ request' = [username |-> username, env |-> env, entry |-> cache[username]]
           /\ result' = [kind |-> IF o.kind = "raise" THEN "raised"
                                  ELSE IF o.found THEN "record" ELSE "none",
                         data |-> o.value]
           /\ calls' = o.trace
           /\ cache' = o.files
    /\ ncalls' = ncalls + 1
    /\ UNCHANGED <<profile_data, verdict, model, form, response>>
    /\ UNCHANGED raceVars
    /\ UNCHANGED fetcherVars

PipelineNext == GetProfileCall

PipelineSpec == PipelineInit /\ [][PipelineNext]_vars

(***************************************************************************)
(* Properties of get_profile (checked under PipelineSpec)                  *)
(***************************************************************************)
IsPrefix(s, t) == Len(s) <= Len(t) /\ \A i \in 1..Len(s) : s[i] = t[i]

Occurs(x, s) == \E i \in 1..Len(s) : s[i] = x

\* the strategies among the steps of a call
IsStrategy(step) == step \in {"cache_lookup", "login", "scrape", "synthetic"}
Strategies(trace) == SelectSeq(trace, IsStrategy)

\* the `method` tag of the records each strategy yields
MethodOf(strategy) ==
    CASE strategy = "cache_lookup" -> "cached"
      [] strategy = "login" -> "instaloader_original"
      [] strategy = "synthetic" -> "realistic_fallback"
      [] OTHER -> "scraped"

Called == result.kind # "idle"
HadEntry == request.entry.state # "absent"
EntryReadable == request.entry.state = "valid" /\ request.env.read = "ok"
AuthSucceeded == request.env.login = "ok" /\ request.env.fetch = "ok"

C6_SyntheticWhenAllElseFails ==
    (Called /\ ~HadEntry /\ ~AuthSucceeded) =>
        /\ result.kind = "record"
        /\ result.data.method = "realistic_fallback"
        /\ result.data.scraped = FALSE

\* C7: get_profile never propagates an exception, whatever the outcome of
\* the cache read, the login, the profile fetch and the cache write: every
\* call ends by returning a record or None.
C7_NeverRaises ==
    Called => result.kind \in {"record", "none"}

C7_Witness_WriteFailureAbsorbed ==
    /\ Called
    /\ request.env.login = "ConnectionException"
    /\ request.env.write = "dump_fails"
    /\ calls = <<"cache_lookup", "login", "synthetic", "cache_write">>
    /\ result.kind = "none"

\* the record a call returned and the document of a cache file agree on
\* every member but the `method` tag
SameAttributes(data, doc) ==
    /\ DOMAIN data = {doc[i][1] : i \in 1..Len(doc)}
    /\ \A i \in 1..Len(doc) : doc[i][1] # "method" => data[doc[i][1]] = doc[i][2]

\* the call returned a record that it fetched or generated itself
ReturnedFresh ==
    Called /\ result.kind = "record" /\ result.data.method # "cached"

\* one step never changes a complete cache entry, and a call made while the
\* identifier has a complete entry returns that entry's values or, when the
\* file cannot be read, None
EntryKeptAndServed ==
    /\ \A u \in PipelineNames : cache[u].state = "valid" => cache'[u] = cache[u]
    /\ cache[request'.username].state = "valid" =>
          IF request'.env.read = "ok"
          THEN /\ result'.kind = "record"
               /\ SameAttributes(result'.data, cache[request'.username].doc)
          ELSE result'.kind = "none"

SyntheticValues ==
    /\ Called
    /\ result.kind = "record"
    /\ \/ Occurs("synthetic", calls)
       \/ HadEntry /\ "note" \in DOMAIN result.data /\ result.data.scraped = FALSE

\* C12: every record get_profile returns whose values came from the
\* synthetic fallback carries the method tag of the synthetic strategy, on
\* the call that generated it and on every later call that returns it from
\* the cache, so that the method tag alone tells synthetic from real data.
C12_SyntheticTaggedSynthetic ==
    SyntheticValues => result.data.method = MethodOf("synthetic")

\* a step of the call failed: the cache file was there but could not be
\* read, or the record could not be written to the cache
CacheReadFailed == Called /\ HadEntry /\ ~EntryReadable
CacheWriteFailed ==
    Called /\ Occurs("cache_write", calls) /\ request.env.write # "ok"

\* C13: a failure inside a step of get_profile makes the call fall through
\* to the next strategy: when the cache entry exists but cannot be read, or
\* when the cache write fails after a strategy produced a record, the call
\* still returns a record and not None.
C13_FailureFallsThrough ==
    /\ CacheReadFailed =>
          /\ result.kind = "record"
          /\ Occurs("login", calls)
    /\ CacheWriteFailed => result.kind = "record"

\* C14: get_profile called with an empty identifier runs no strategy (no
\* cache lookup, no login, no synthetic generation), writes no cache file
\* and returns no record.
C14_EmptyIdentifierRejected ==
    (Called /\ request.username = NameEmpty) =>
        /\ result.kind # "record"
        /\ Strategies(calls) = << >>
        /\ cache[NameEmpty] = FileAbsent

(***************************************************************************)
(* app.py: the classifier handle and the /predict route                    *)
(***************************************************************************)
Digits == <<"0","1","2","3","4","5","6","7","8","9">>

IsDigit(c) == \E i \in 1..Len(Digits) : Digits[i] = c
DigitValue(c) == (CHOOSE i \in 1..Len(Digits) : Digits[i] = c) - 1

RECURSIVE DecimalValue(_)
DecimalValue(s) ==
    IF s = << >> THEN 0
    ELSE 10 * DecimalValue(SubSeq(s, 1, Len(s) - 1)) + DigitValue(s[Len(s)])

\* str.strip() for blanks
RECURSIVE Strip(_)
Strip(s) ==
    IF s = << >> THEN s
    ELSE IF s[1] = " " THEN Strip(Tail(s))
    ELSE IF s[Len(s)] = " " THEN Strip(SubSeq(s, 1, Len(s) - 1))
    ELSE s

\* int(text): an optional sign and decimal digits, ValueError otherwise
ParseInt(text) ==
    LET t      == Strip(text)
        signed == t # << >> /\ t[1] \in {"-", "+"}
        digits == IF signed THEN Tail(t) ELSE t
    IN  IF digits = << >> \/ \E i \in 1..Len(digits) : ~IsDigit(digits[i])
        THEN [ok |-> FALSE, value |-> 0]
        ELSE [ok |-> TRUE,
              value |-> IF signed /\ t[1] = "-" THEN 0 - DecimalValue(digits)
                        ELSE DecimalValue(digits)]

\* a form field that was not submitted
Absent == <<"absent">>

\* int(data.get(field, 0))
IntField(data, field) ==
    IF data[field] = Absent THEN [ok |-> TRUE, value |-> 0] ELSE ParseInt(data[field])

StrTrue  == <<"t","r","u","e">>
StrFalse == <<"f","a","l","s","e">>

\* 1 if data.get(field, default).lower() == 'true' else 0
FlagField(data, field, default) ==
    IF Lower(IF data[field] = Absent THEN default ELSE data[field]) = StrTrue
    THEN 1 ELSE 0

\* whitelist.is_whitelisted: membership in a static set of identifiers
Whitelist == {NameInstagram}
is_whitelisted(user_id) == user_id \in Whitelist

JsonError(status, message, ran) ==
    [status |-> status, kind |-> "error", message |-> message, ran |-> ran]

Result(prediction, confidence, whitelisted, statuses, followers, friends, ran) ==
    [status |-> 200, kind |-> "result", prediction |-> prediction,
     confidence |-> confidence, is_whitelisted |-> whitelisted,
     features |-> [statuses_count |-> statuses, followers_count |-> followers,
                   friends_count |-> friends],
     ran |-> ran]

\* validate_input_data applied to the features dict built by predict: the
\* counts are ints already, the flags are 0 or 1
validate_input_data(features) ==
    IF features.followers_count < 0
    THEN [is_valid |-> FALSE, error |-> "followers_count cannot be negative"]
    ELSE IF features.following_count < 0
    THEN [is_valid |-> FALSE, error |-> "following_count cannot be negative"]
    ELSE IF features.post_count < 0
    THEN [is_valid |-> FALSE, error |-> "post_count cannot be negative"]
    ELSE [is_valid |-> TRUE, error |-> "",
          validated |-> [followers_count |-> features.followers_count,
                         following_count |-> features.following_count,
                         post_count |-> features.post_count,
                         has_profile_pic |-> features.has_profile_pic = 1,
                         is_private |-> features.is_private = 1,
                         is_verified |-> features.is_verified = 1]]

\* predict, from the feature extraction on (lines 150-241)
PredictFeatures(data, classifier) ==
    LET followers == IntField(data, "followers_count")
        following == IntField(data, "following_count")
        posts     == IntField(data, "post_count")
    IN
    IF ~followers.ok \/ ~following.ok \/ ~posts.ok
    THEN [kind |-> "raise", value |-> "ValueError", ran |-> << >>]
    ELSE
    LET features ==
            [followers_count |-> followers.value,
             following_count |-> following.value,
             post_count |-> posts.value,
             has_profile_pic |-> FlagField(data, "has_profile_pic", StrTrue),
             is_private |-> FlagField(data, "is_private", StrFalse),
             is_verified |-> FlagField(data, "is_verified", StrFalse)]
        verified == features.is_verified = 1
        \* following / followers < 0.01
        low_ratio == ~verified /\ features.followers_count > 0
                     /\ 100 * features.following_count < features.followers_count
        few_posts == ~verified /\ features.followers_count > 1000
                     /\ features.post_count < 10
        private_big == ~verified /\ features.is_private = 1
                       /\ features.followers_count > 5000
        is_suspicious == low_ratio \/ few_posts \/ private_big
        is_influencer == verified /\ features.followers_count > 10000
        checked == validate_input_data(features)
    IN
    IF is_influencer
    THEN [kind |-> "return",
          value |-> [is_influencer |-> TRUE] @@
                    Result("GENUINE", "99.0", FALSE, features.post_count,
                           features.followers_count, features.following_count,
                           <<"heuristics">>),
          ran |-> <<"heuristics">>]
    ELSE IF is_suspicious
    THEN [kind |-> "return",
          value |-> Result("FAKE", "95.0", FALSE, features.post_count,
                           features.followers_count, features.following_count,
                           <<"heuristics">>),
          ran |-> <<"heuristics">>]
    ELSE IF ~checked.is_valid
    THEN [kind |-> "return",
          value |-> JsonError(400, checked.error, <<"heuristics", "validate">>),
          ran |-> <<"heuristics", "validate">>]
    ELSE IF classifier.raises
    THEN [kind |-> "raise", value |-> "Exception",
          ran |-> <<"heuristics", "validate", "classifier">>]
    ELSE [kind |-> "return",
          value |-> Result(IF classifier.prediction = 1 THEN "GENUINE" ELSE "FAKE",
                           "round(max(proba) * 100, 2)", FALSE,
                           0, checked.validated.followers_count, 0,
                           <<"heuristics", "validate", "classifier">>),
          ran |-> <<"heuristics", "validate", "classifier">>]

\* predict, the body of its try block (lines 119-241)
PredictBody(loaded, data, classifier) ==
    LET user_id == Strip(IF data.user_id = Absent THEN << >> ELSE data.user_id) IN
    IF loaded = None
    THEN [kind |-> "return", ran |-> << >>,
          value |-> JsonError(503,
              "Prediction model is not available. Please try again later.", << >>)]
    ELSE IF user_id = << >>
    THEN [kind |-> "return", ran |-> << >>,
          value |-> JsonError(400, "User ID is required", << >>)]
    ELSE IF is_whitelisted(user_id)
    THEN [kind |-> "return", ran |-> << >>,
          value |-> Result("GENUINE", "99.9", TRUE, 0, 0, 0, << >>)]
    ELSE PredictFeatures(data, classifier)

\* except Exception as e: ... 500 (lines 242-248)
PredictExcept(o) ==
    IF o.kind = "raise"
    THEN JsonError(500, "An error occurred during prediction", o.ran)
    ELSE o.value

\* the /predict route
PredictRoute(loaded, data, classifier) ==
    PredictExcept(PredictBody(loaded, data, classifier))

(***************************************************************************)
(* The service started and /predict requested with bounded forms           *)
(***************************************************************************)
UserIds ==
    {Absent, << >>, <<" ">>, NameInstagram, <<" ">> \o NameInstagram \o <<" ">>,
     NameJaneDoe}

FollowerTexts ==
    {Absent, <<"a","b","c">>, <<"-","5">>, <<"5">>, <<"2","0","0","0">>,
     <<"2","0","0","0","0">>}
FollowingTexts ==
    {Absent, << >>, <<"-","5">>, <<"5">>, <<"1","5","0">>, <<"2","0","0","0">>}
PostTexts ==
    {Absent, <<"1",".","5">>, <<"-","1">>, <<"5">>, <<"5","0">>}

Forms ==
    [user_id : UserIds, followers_count : FollowerTexts,
     following_count : FollowingTexts, post_count : PostTexts,
     is_verified : {Absent, StrTrue, <<"T","r","u","e">>, StrFalse},
     is_private : {Absent, StrTrue},
     has_profile_pic : {Absent, StrFalse}]

\* model.predict / model.predict_proba: a label, or an exception
ClassifierOutcomes ==
    { [raises |-> FALSE, prediction |-> 1], [raises |-> FALSE, prediction |-> 0],
      [raises |-> TRUE, prediction |-> 0] }

\* joblib.load of MODEL_PATH: no file, an artifact without 'model', a model
LoadOutcomes == {"missing", "no_model", "ok"}

NoForm == [user_id |-> Absent]
NoResponse == [status |-> 0, kind |-> "none"]

WebInit ==
    /\ model = None
    /\ form = NoForm
    /\ response = NoResponse
    /\ IdleScorer
    /\ IdlePipeline
    /\ IdleRace
    /\ IdleFetchers

\* load_model(), called by init_app() before any request is served
LoadModel ==
    /\ response = NoResponse
    /\ \E outcome \in LoadOutcomes :
         model' = CASE outcome = "ok" -> "RandomForestClassifier"
                    [] outcome = "no_model" -> None
                    [] OTHER -> model
    /\ UNCHANGED <<form, response, profile_data, verdict,
                   cache, request, result, calls, ncalls>>
    /\ UNCHANGED raceVars
    /\ UNCHANGED fetcherVars

\* POST /predict
PredictRequest ==
    /\ response = NoResponse
    /\ \E data \in Forms : \E classifier \in ClassifierOutcomes :
         /\ form' = data
         /\ response' = PredictRoute(model, data, classifier)
    /\ UNCHANGED <<model, profile_data, verdict,
                   cache, request, result, calls, ncalls>>
    /\ UNCHANGED raceVars
    /\ UNCHANGED fetcherVars

WebNext == LoadModel \/ PredictRequest

WebSpec == WebInit /\ [][WebNext]_vars

(***************************************************************************)
(* Properties of /predict (checked under WebSpec)                          *)
(***************************************************************************)
Responded == response.kind # "none"

SubmittedUserId == Strip(IF form.user_id = Absent THEN << >> ELSE form.user_id)

\* C10: every request whose identifier is on the whitelist, whether the
\* classifier is loaded or not and whatever the other fields, is answered
\* with prediction GENUINE, confidence 99.9, is_whitelisted true and all
\* feature counts zero, and neither the heuristics nor the classifier run.
C10_WhitelistedAlwaysGenuine ==
    (Responded /\ is_whitelisted(SubmittedUserId)) =>
        /\ response.status = 200
        /\ response.kind = "result"
        /\ response.prediction = "GENUINE"
        /\ response.confidence = "99.9"
        /\ response.is_whitelisted = TRUE
        /\ response.features =
              [statuses_count |-> 0, followers_count |-> 0, friends_count |-> 0]
        /\ response.ran = << >>

\* the submitted form has an input error: the identifier is missing or
\* empty, or a count field is not the text of an integer
CountFields == {"followers_count", "following_count", "post_count"}
BadIdentifier == SubmittedUserId = << >>
BadCount == \E f \in CountFields : ~IntField(form, f).ok

\* the request was answered by the whitelist gate
AnsweredByWhitelist == response.kind = "result" /\ response.is_whitelisted = TRUE

\* C15: with the classifier loaded, every request to /predict that has an
\* input error (identifier missing or empty, or a count field that is not a
\* valid integer) and is not answered by the whitelist gate is answered with
\* a 4xx status and an error message, never with a 5xx status and never
\* with a verdict.
C15_InputErrorsAnswered4xx ==
    (Responded /\ model # None /\ ~AnsweredByWhitelist /\ (BadIdentifier \/ BadCount)) =>
        /\ response.kind = "error"
        /\ response.status \in 400..499

\* the submitted counts as predict reads them
Submitted(field) == IntField(form, field).value

\* every count field is the text of an integer and at least one is negative
NegativeCount ==
    /\ ~BadCount
    /\ \E f \in CountFields : Submitted(f) < 0

\* C24: with the classifier loaded, every request to /predict that carries
\* a negative follower, following or post count and is not answered by the
\* whitelist gate is rejected with status 400; none receives a GENUINE or
\* FAKE verdict.
C24_NegativeCountsRejected ==
    (Responded /\ model # None /\ ~BadIdentifier /\ ~AnsweredByWhitelist
       /\ NegativeCount) =>
        /\ response.kind = "error"
        /\ response.status = 400

\* C30: in every verdict /predict produces for an identifier that is not
\* whitelisted (influencer, suspicious or classifier verdict) the reported
\* post, follower and following counts equal the counts submitted.
C30_ReportedCountsAreSubmitted ==
    (Responded /\ response.kind = "result" /\ ~AnsweredByWhitelist) =>
        response.features =
            [statuses_count |-> Submitted("post_count"),
             followers_count |-> Submitted("followers_count"),
             friends_count |-> Submitted("following_count")]

(***************************************************************************)
(* app.py: the /api/analyze/instagram route                                *)
(***************************************************************************)
\* str.strip('@')
RECURSIVE StripAt(_)
StripAt(s) ==
    IF s = << >> THEN s
    ELSE IF s[1] = "@" THEN StripAt(Tail(s))
    ELSE IF s[Len(s)] = "@" THEN StripAt(SubSeq(s, 1, Len(s) - 1))
    ELSE s

\* the 200 answer: jsonify({'success': True, 'profile': ..., 'analysis': ...})
AnalysisResult(profile, prediction) ==
    [status |-> 200, kind |-> "analysis", profile |-> profile, analysis |-> prediction]

\* if has_profile_pic and not profile_pic_url (line 432)
NeedsRefetch(profile) == profile.has_profile_pic /\ profile.profile_pic_url = << >>

\* lines 432-441: the second call of _try_instaloader_original and the copy
\* of the URL it found; the inner except cannot be reached, the call absorbs
\* its own exceptions
Refetch(username, profile, env2, files) ==
    IF NeedsRefetch(profile)
    THEN LET fresh == TryInstaloaderOriginal(username, env2, files) IN
         [profile |-> IF fresh.found /\ fresh.value.profile_pic_url # << >>
                      THEN [profile EXCEPT !.profile_pic_url = fresh.value.profile_pic_url]
                      ELSE profile,
          trace |-> fresh.trace]
    ELSE [profile |-> profile, trace |-> << >>]

NormalisePictureKeepingFlag(profile) == profile

\* lines 444-447: has_profile_pic follows the URL
NormalisePicture(profile) ==
    [profile EXCEPT !.has_profile_pic = Strip(profile.profile_pic_url) # << >>]

\* what a request did besides answering: the record get_profile returned,
\* the record given to the detector and its verdict
Untouched(files) ==
    [called |-> FALSE, got |-> NoResult, scored |-> NoProfile, verdict |-> NoVerdict,
     username |-> << >>, trace |-> << >>, files |-> files]

\* analyze_instagram, the body of its try block (lines 400-460)
AnalyzeBody(data, env, env2, files) ==
    IF ~data.json
    THEN [kind |-> "raise", value |-> "AttributeError"] @@ Untouched(files)
    ELSE
    LET username == StripAt(IF data.username = Absent THEN << >> ELSE data.username) IN
    IF username = << >>
    THEN [kind |-> "return", value |-> JsonError(400, "Username is required", << >>)]
         @@ Untouched(files)
    ELSE
    LET g == GetProfile(username, env, files) IN
    IF ~g.found
    THEN [kind |-> "return",
          value |-> JsonError(429, "Instagram is temporarily rate-limiting requests", g.trace),
          called |-> TRUE, got |-> [kind |-> "none", data |-> None],
          scored |-> NoProfile, verdict |-> NoVerdict,
          username |-> username, trace |-> g.trace, files |-> g.files]
    ELSE
    LET r          == Refetch(username, g.value, env2, g.files)
        profile    == NormalisePicture(r.profile)
        prediction == Predict(profile)
    IN  [kind |-> "return", value |-> AnalysisResult(profile, prediction),
         called |-> TRUE, got |-> [kind |-> "record", data |-> g.value],
         scored |-> profile, verdict |-> prediction,
         username |-> username, trace |-> g.trace \o r.trace \o <<"predict">>,
         files |-> g.files]

\* except Exception as e: ... 500 (lines 462-467)
AnalyzeExcept(o) ==
    IF o.kind = "raise"
    THEN [o EXCEPT !.kind = "return",
                   !.value = JsonError(500, "Analysis failed", o.trace)]
    ELSE o

\* POST /api/analyze/instagram
AnalyzeRoute(data, env, env2, files) ==
    AnalyzeExcept(AnalyzeBody(data, env, env2, files))

(***************************************************************************)
(* The analysis route requested with bounded bodies and environments       *)
(***************************************************************************)
AnalyzeNames == {NameJohn, NameJaneDoe, AllowListedName}

\* request.get_json(): no JSON object, an object without 'username', or one
\* with it
JsonBodies ==
    {[json |-> FALSE, username |-> Absent], [json |-> TRUE, username |-> Absent]}
    \cup { [json |-> TRUE, username |-> u] :
             u \in {<< >>, <<"@">>, <<"@">> \o NameJohn, NameJaneDoe,
                    AllowListedName} }

\* the environments of get_profile in which the login finds no credentials
\* or succeeds, the fetch succeeds or is rate-limited, and the cache write
\* succeeds or cannot open the file
AnalyzeEnvironments(username, files) ==
    { env \in Environments(username, files) :
        /\ env.login \in {Unused, "ok", "no_credentials"}
        /\ env.fetch \in {Unused, "ok", "TooManyRequestsException"}
        /\ env.write \in {Unused, "ok", "open_fails"} }

NoEnvironment ==
    [read |-> Unused, login |-> Unused, fetch |-> Unused, profile |-> NoRemote,
     draw |-> NoDraw, write |-> Unused]

\* the environment of the second _try_instaloader_original call
RefetchEnvironments(username) ==
    { [NoEnvironment EXCEPT !.login = "no_credentials"],
      [NoEnvironment EXCEPT !.login = "ok", !.fetch = "TooManyRequestsException"] }
    \cup { [NoEnvironment EXCEPT !.login = "ok", !.fetch = "ok", !.profile = rp] :
             rp \in RemoteProfiles(username) }

AnalyzeInit ==
    /\ cache = [u \in AnalyzeNames |-> FileAbsent]
    /\ request = NoRequest
    /\ result = NoResult
    /\ calls = << >>
    /\ ncalls = 0
    /\ IdleScorer
    /\ IdleRace
    /\ IdleFetchers
    /\ model = None
    /\ form = NoForm
    /\ response = NoResponse

\* one request to analyze_instagram, from get_json to the response
AnalyzeRequest ==
    /\ ncalls < MaxCalls
    /\ \E data \in JsonBodies :
         LET username == IF data.json /\ data.username # Absent
                         THEN StripAt(data.username) ELSE << >>
             reaches  == username \in AnalyzeNames
         IN
         \E env \in IF reaches THEN AnalyzeEnvironments(username, cache)
                                ELSE {NoEnvironment} :
         \E env2 \in IF reaches THEN RefetchEnvironments(username)
                                 ELSE {NoEnvironment} :
           LET o == AnalyzeRoute(data, env, env2, cache) IN
           /\ (reaches /\ o.called /\ o.got.kind = "record" /\ NeedsRefetch(o.got.data))
                \/ env2 = (IF reaches THEN [NoEnvironment EXCEPT !.login = "no_credentials"]
                                      ELSE NoEnvironment)
           /\ form' = data
           /\ request' = [username |-> o.username, env |-> env, refetch |-> env2,
                          entry |-> IF reaches THEN cache[username] ELSE FileAbsent]
           /\ result' = o.got
           /\ calls' = o.trace
           /\ cache' = o.files
           /\ profile_data' = o.scored
           /\ verdict' = o.verdict
           /\ response' = o.value
    /\ ncalls' = ncalls + 1
    /\ UNCHANGED model
    /\ UNCHANGED raceVars
    /\ UNCHANGED fetcherVars

AnalyzeNext == AnalyzeRequest

AnalyzeSpec == AnalyzeInit /\ [][AnalyzeNext]_vars

(***************************************************************************)
(* Properties of analyze_instagram (checked under AnalyzeSpec)             *)
(***************************************************************************)
Answered == response.kind # "none"

\* how often a step was taken in the request
Attempts(step) == Cardinality({i \in 1..Len(calls) : calls[i] = step})

\* C19: within one request to analyze_instagram every acquisition strategy
\* (cache lookup, login, profile fetch, synthetic generation) is attempted
\* at most once; a strategy that failed or was rate-limited inside
\* get_profile is not invoked again before the response is produced.
C19_EachStrategyOnce ==
    Answered =>
        /\ Attempts("cache_lookup") <= 1
        /\ Attempts("login") <= 1
        /\ Attempts("fetch") <= 1
        /\ Attempts("synthetic") <= 1

\* the request was answered with an analysis: profile_data is the record
\* handed to the detector and verdict what the detector returned
Analysed == response.kind = "analysis"

HasReason(reason) == \E i \in 1..Len(verdict.reasons) : verdict.reasons[i] = reason

FlagFollowsUrl ==
    profile_data.has_profile_pic <=> (Strip(profile_data.profile_pic_url) # << >>)

\* C29: in POST /api/analyze/instagram, when the detector is called the
\* record's has_profile_pic flag is true exactly when its profile_pic_url
\* is non-blank, whatever flag get_profile produced; a record whose URL is
\* still empty at that moment is scored with the 'No profile picture'
\* penalty, unless its username is the hard-coded identifier, for which the
\* detector returns its fixed verdict without applying any rule.
C29_FlagFollowsUrlAtScoring ==
    Analysed =>
        /\ FlagFollowsUrl
        /\ (profile_data.profile_pic_url = << >>) =>
              IF Lower(profile_data.username) = AllowListedName
              THEN verdict = ManualVerdict
              ELSE verdict.scored /\ HasReason("No profile picture")

\* C29 reached: get_profile returned a synthetic record flagged as having a
\* picture, the extra fetch found no URL, and the record was scored with
\* the flag cleared and the penalty applied
C29_Witness_SyntheticFlagCleared ==
    /\ Analysed
    /\ result.kind = "record"
    /\ result.data.has_profile_pic
    /\ result.data.profile_pic_url = << >>
    /\ Attempts("login") = 2
    /\ profile_data.profile_pic_url = << >>
    /\ ~profile_data.has_profile_pic
    /\ HasReason("No profile picture")

\* C29 as stated: every record whose URL is still empty when the detector
\* is called is scored with the 'No profile picture' penalty
C29_EmptyUrlAlwaysPenalised ==
    Analysed =>
        /\ FlagFollowsUrl
        /\ (profile_data.profile_pic_url = << >>) => HasReason("No profile picture")

(***************************************************************************)
(* get_profile step by step, for requests served at the same time          *)
(* (app.run serves each request in its own thread; get_profile takes no    *)
(* lock)                                                                   *)
(***************************************************************************)
\* the number of characters json.dump writes for an int
RECURSIVE IntLength(_)
IntLength(n) == IF n < 10 THEN 1 ELSE 1 + IntLength(n \div 10)

\* the number of characters of a key or of a tag value, without its quotes
NameLength(name) ==
    CASE name = "username" -> 8
      [] name = "followers" -> 9
      [] name = "following" -> 9
      [] name = "total_posts" -> 11
      [] name = "is_verified" -> 11
      [] name = "is_private" -> 10
      [] name = "has_profile_pic" -> 15
      [] name = "biography" -> 9
      [] name = "account_age_days" -> 16
      [] name = "profile_pic_url" -> 15
      [] name = "scraped" -> 7
      [] name = "method" -> 6
      [] name = "note" -> 4
      [] name = "realistic_fallback" -> 18
      [] name = "instaloader_original" -> 20
      [] name = "cached" -> 6
      [] name = "Realistic data generated as fallback" -> 36

\* the number of characters json.dump writes for the value of a member
ValueLength(key, value) ==
    CASE key \in {"username", "biography", "profile_pic_url"} -> Len(value) + 2
      [] key \in {"followers", "following", "total_posts", "account_age_days"} ->
            IntLength(value)
      [] key \in {"is_verified", "is_private", "has_profile_pic", "scraped"} ->
            IF value THEN 4 ELSE 5
      [] OTHER -> NameLength(value) + 2

\* the length of the text json.dump writes for a document:
\* {"key": value, "key": value, ...}
RECURSIVE MembersLength(_)
MembersLength(doc) ==
    IF doc = << >> THEN 0
    ELSE NameLength(Head(doc)[1]) + 4 + ValueLength(Head(doc)[1], Head(doc)[2])
         + (IF Len(doc) > 1 THEN 2 ELSE 0) + MembersLength(Tail(doc))

JsonLength(doc) == 2 + MembersLength(doc)

\* the text a thread writes: its characters, known by writer and position
Bytes(t, n) == [i \in 1..n |-> <<t, i>>]

\* os.write at offset 0 of a descriptor opened with 'w': the new text
\* replaces the first characters, whatever lies behind them stays
WriteAtStart(old, new) == new \o SubSeq(old, Len(new) + 1, Len(old))

Threads == {"request_a", "request_b"}

RaceName == NameJohn

NoRecord == [method |-> "none"]

\* what the login, the fetch and the random draws give one request
RaceEnvironments ==
    { [NoEnvironment EXCEPT !.login = "no_credentials", !.draw = d] : d \in Draws }
    \cup { [NoEnvironment EXCEPT !.login = "ok", !.fetch = "ok", !.profile = rp] :
             rp \in RemoteProfiles(RaceName) }

\* the text of the record thread t holds
TextOf(t) == Bytes(t, JsonLength(JsonDump(threads[t].record)))

\* the variables of the sequential specifications
sequentialVars == <<scorerVars, pipelineVars, webVars, fetcherVars>>

RaceInit ==
    /\ threads = [t \in Threads |->
                    [pc |-> "lookup", missed |-> FALSE, record |-> NoRecord,
                     result |-> NoResult]]
    /\ disk = [exists |-> FALSE, bytes |-> << >>, writer |-> "nobody"]
    /\ IdleScorer
    /\ IdlePipeline
    /\ IdleWeb
    /\ IdleFetchers

\* line 412: if os.path.exists(cache_file)
RaceLookup(t) ==
    /\ threads[t].pc = "lookup"
    /\ threads' = [threads EXCEPT ![t].pc = IF disk.exists THEN "read" ELSE "acquire",
                                  ![t].missed = ~disk.exists]
    /\ UNCHANGED <<disk, sequentialVars>>

\* lines 414-417: open, json.load, tag, return; a text that is not one
\* complete document makes json.load raise, and the call returns None
RaceRead(t) ==
    /\ threads[t].pc = "read"
    /\ threads' = [threads EXCEPT
            ![t].pc = "done",
            ![t].result = IF \E w \in Threads : threads[w].record # NoRecord
                                                 /\ disk.bytes = TextOf(w)
                          THEN [kind |-> "record",
                                data |-> [threads[disk.writer].record
                                             EXCEPT !.method = "cached"]]
                          ELSE [kind |-> "none", data |-> None]]
    /\ UNCHANGED <<disk, sequentialVars>>

\* lines 420 and 428: the authenticated fetch, else the synthetic record
RaceAcquire(t) ==
    /\ threads[t].pc = "acquire"
    /\ \E env \in RaceEnvironments :
         LET a == TryInstaloaderOriginal(RaceName, env, << >>) IN
         threads' = [threads EXCEPT
            ![t].pc = "open",
            ![t].record = IF a.found THEN a.value
                          ELSE GenerateRealisticData(RaceName, env.draw)]
    /\ UNCHANGED <<disk, sequentialVars>>

\* lines 423 and 430: open(cache_file, 'w') creates or truncates the file
RaceOpen(t) ==
    /\ threads[t].pc = "open"
    /\ disk' = [disk EXCEPT !.exists = TRUE, !.bytes = << >>]
    /\ threads' = [threads EXCEPT ![t].pc = "dump"]
    /\ UNCHANGED sequentialVars

\* lines 424-425 and 431-432: json.dump fills the buffer of the file object,
\* leaving the with block flushes it in one write, and the record is returned
RaceDump(t) ==
    /\ threads[t].pc = "dump"
    /\ disk' = [disk EXCEPT !.bytes = WriteAtStart(disk.bytes, TextOf(t)),
                            !.writer = t]
    /\ threads' = [threads EXCEPT
            ![t].pc = "done",
            ![t].result = [kind |-> "record", data |-> threads[t].record]]
    /\ UNCHANGED sequentialVars

RaceNext ==
    \E t \in Threads :
        \/ RaceLookup(t)
        \/ RaceRead(t)
        \/ RaceAcquire(t)
        \/ RaceOpen(t)
        \/ RaceDump(t)

RaceSpec == RaceInit /\ [][RaceNext]_vars

(***************************************************************************)
(* Properties of concurrent get_profile calls (checked under RaceSpec)     *)
(***************************************************************************)
RaceFinished == \A t \in Threads : threads[t].pc = "done"

\* every request found no cache file and went on to write one
AllMissed == \A t \in Threads : threads[t].missed

\* C20: when two requests run get_profile at the same time for the same
\* identifier and both find no cache file, then after both have finished
\* the cache file holds exactly the complete record of the request that
\* wrote last: no mixture of the two records, no partial record.
C20_LastWriterComplete ==
    (RaceFinished /\ AllMissed) => disk.bytes = TextOf(disk.writer)

\* C26: a get_profile call that finds a cache entry returns a populated
\* record even while another request is writing that entry: in no
\* interleaving does a call that found the cache file return None.
C26_CacheHitReturnsRecord ==
    \A t \in Threads :
        (threads[t].pc = "done" /\ ~threads[t].missed) =>
            threads[t].result.kind = "record"

(***************************************************************************)
(* instagram_analyzer.py: the unauthenticated scrape chain                 *)
(* (_try_multiple_techniques and its four techniques)                      *)
(***************************************************************************)
\* the names the import statements bind at module level (lines 5-12);
\* `requests` is imported only inside test_connection (line 388), where it
\* is a local name, and BeautifulSoup is imported nowhere in the module
ImportedNames ==
    {"os", "sys", "time", "datetime", "Optional", "Dict", "List", "Any",
     "instaloader", "tqdm", "load_dotenv"}

\* what one technique returns: a record or None, and how it came to it
TechniqueReturns(value) == [found |-> TRUE, value |-> value, note |-> "record"]
TechniqueNone(note)     == [found |-> FALSE, value |-> None, note |-> note]

\* the counts a profile page announces
Page == [followers |-> 20000, following |-> 150, posts |-> 300]

\* _extract_from_html: the record read from the meta description, else the
\* minimal record of a page whose title names Instagram, else None; every
\* exception is absorbed (lines 604-665)
ExtractFromHtml(answer, username, method) ==
    IF "BeautifulSoup" \notin ImportedNames THEN TechniqueNone("NameError")
    ELSE IF answer = "200_profile"
    THEN TechniqueReturns(
            [username |-> username, followers |-> Page.followers,
             following |-> Page.following, total_posts |-> Page.posts,
             is_verified |-> FALSE, is_private |-> FALSE, has_profile_pic |-> TRUE,
             biography |-> Text(20), account_age_days |-> 365,
             profile_pic_url |-> << >>, scraped |-> TRUE, method |-> method])
    ELSE IF answer = "200_title"
    THEN TechniqueReturns(
            [username |-> username, followers |-> 0, following |-> 0,
             total_posts |-> 0, is_verified |-> FALSE, is_private |-> FALSE,
             has_profile_pic |-> TRUE, account_age_days |-> 365,
             profile_pic_url |-> << >>, scraped |-> TRUE, method |-> <<method, "minimal">>])
    ELSE TechniqueNone("no_data")

\* the three techniques that request the profile page: requests.get, then
\* status 200 -> _extract_from_html, status 429 -> None, any other status
\* -> None, any exception -> None
HtmlTechnique(method, username, answer) ==
    IF "requests" \notin ImportedNames THEN TechniqueNone("NameError")
    ELSE IF answer = "timeout" THEN TechniqueNone("exception")
    ELSE IF answer \in {"200_profile", "200_title"}
    THEN ExtractFromHtml(answer, username, method)
    ELSE IF answer = "429" THEN TechniqueNone("rate_limited")
    ELSE TechniqueNone("no_data")

\* lines 466-494
TechniqueMobileWeb(username, answer) == HtmlTechnique("mobile_web", username, answer)

\* lines 496-528
TechniqueDesktopWeb(username, answer) == HtmlTechnique("desktop_web", username, answer)

\* lines 530-581: the web_profile_info endpoint; a 200 answer with user
\* data gives the record, one without gives None
TechniqueApiEmulation(username, answer) ==
    IF "requests" \notin ImportedNames THEN TechniqueNone("NameError")
    ELSE IF answer = "timeout" THEN TechniqueNone("exception")
    ELSE IF answer = "200_profile"
    THEN TechniqueReturns(
            [username |-> username, followers |-> Page.followers,
             following |-> Page.following, total_posts |-> Page.posts,
             is_verified |-> FALSE, is_private |-> FALSE, has_profile_pic |-> TRUE,
             biography |-> Text(20), account_age_days |-> 365,
             profile_pic_url |-> <<"h","t","t","p">>, scraped |-> TRUE,
             method |-> "api_emulation"])
    ELSE IF answer = "429" THEN TechniqueNone("rate_limited")
    ELSE TechniqueNone("no_data")

\* lines 583-602
TechniqueDirectRequest(username, answer) ==
    HtmlTechnique("direct_request", username, answer)

\* the list `techniques` (lines 443-448)
Techniques == <<"mobile_web", "desktop_web", "api_emulation", "direct_request">>

\* technique(username) for the i-th entry of the list; net[i] is what the
\* server would answer to its request
Technique(i, username, net) ==
    CASE i = 1 -> TechniqueMobileWeb(username, net[i])
      [] i = 2 -> TechniqueDesktopWeb(username, net[i])
      [] i = 3 -> TechniqueApiEmulation(username, net[i])
      [] OTHER -> TechniqueDirectRequest(username, net[i])

Attempt(i, o) == [technique |-> Techniques[i], note |-> o.note]

TryTechniquesStoppingAtFailure(i, username, net) ==
    LET o == Technique(i, username, net) IN
    [found |-> o.found, value |-> o.value, trace |-> <<Attempt(i, o)>>]

\* the loop of lines 450-462 from the i-th technique on, and the final
\* return None (line 464); the techniques absorb their own exceptions, so
\* the except clause of the loop has nothing to catch
RECURSIVE TryTechniquesFrom(_, _, _)
TryTechniquesFrom(i, username, net) ==
    IF i > Len(Techniques)
    THEN [found |-> FALSE, value |-> None, trace |-> << >>]
    ELSE LET o == Technique(i, username, net) IN
         IF o.found
         THEN [found |-> TRUE, value |-> o.value, trace |-> <<Attempt(i, o)>>]
         ELSE LET rest == TryTechniquesFrom(i + 1, username, net) IN
              [rest EXCEPT !.trace = <<Attempt(i, o)>> \o rest.trace]

\* _try_multiple_techniques (lines 441-464)
TryMultipleTechniques(username, net) == TryTechniquesFrom(1, username, net)

(***************************************************************************)
(* The scrape chain called with bounded names and server answers           *)
(***************************************************************************)
ChainNames == {NameJohn, NameJaneDoe}

\* what the server answers to the request of one technique: the profile
\* page, a page with only a title, a rate limit, a missing page, no answer
Answers == {"200_profile", "200_title", "429", "404", "timeout"}

NoFetch == [call |-> "none"]

ChainInit ==
    /\ fetch = NoFetch
    /\ api = << >>
    /\ IdleScorer
    /\ IdlePipeline
    /\ IdleWeb
    /\ IdleRace

\* analyzer._try_multiple_techniques(username)
TryMultipleTechniquesCall ==
    /\ fetch = NoFetch
    /\ \E username \in ChainNames :
       \E net \in [1..Len(Techniques) -> Answers] :
         LET o == TryMultipleTechniques(username, net) IN
         fetch' = [call |-> "_try_multiple_techniques", username |-> username,
                   net |-> net, found |-> o.found, value |-> o.value,
                   trace |-> o.trace]
    /\ UNCHANGED <<api, scorerVars, pipelineVars, webVars, raceVars>>

ChainNext == TryMultipleTechniquesCall

ChainSpec == ChainInit /\ [][ChainNext]_vars

(***************************************************************************)
(* Properties of the scrape chain (checked under ChainSpec)                *)
(***************************************************************************)
ChainReturned == fetch.call = "_try_multiple_techniques"

\* the techniques the call invoked, in order
Invoked == [i \in 1..Len(fetch.trace) |-> fetch.trace[i].technique]

\* the i-th invoked technique failed: it met a rate limit, an exception or
\* a page without data, and returned None
Failed(i) == fetch.trace[i].note # "record"

Configured == "configured"

\* what one method returns: a record or None
MethodReturns(value) == [found |-> TRUE, value |-> value]
MethodNone           == [found |-> FALSE, value |-> None]

\* the account as the remote services describe it
RemoteAccount ==
    [account_type |-> "BUSINESS", media_count |-> 300, followers_count |-> 20000,
     follows_count |-> 150, biography |-> Text(20),
     profile_picture_url |-> <<"h","t","t","p">>]

\* _try_basic_display_api (lines 57-112): the user search, then the user
\* details; a record only when both answer 200 and the search lists the
\* username; every exception is absorbed
TryBasicDisplayApi(self, username, answers) ==
    IF answers.search = "200_match" /\ answers.details = "200"
    THEN MethodReturns(
            [username |-> username, followers |-> RemoteAccount.followers_count,
             following |-> RemoteAccount.follows_count,
             total_posts |-> RemoteAccount.media_count,
             is_verified |-> RemoteAccount.account_type = "BUSINESS",
             is_private |-> RemoteAccount.account_type = "PRIVATE",
             has_profile_pic |-> RemoteAccount.profile_picture_url # << >>,
             biography |-> RemoteAccount.biography, account_age_days |-> 365,
             profile_pic_url |-> RemoteAccount.profile_picture_url,
             scraped |-> TRUE, method |-> "basic_display_api"])
    ELSE MethodNone

\* _try_graph_api (lines 114-169): the app token, then the oembed lookup; a
\* partial record only when both answer 200
TryGraphApi(self, username, answers) ==
    IF answers.token = "200" /\ answers.oembed = "200"
    THEN MethodReturns(
            [username |-> username, followers |-> 0, following |-> 0,
             total_posts |-> 0, is_verified |-> FALSE, is_private |-> FALSE,
             has_profile_pic |-> TRUE, biography |-> Text(20),
             account_age_days |-> 365, profile_pic_url |-> << >>,
             scraped |-> TRUE, method |-> "graph_api_partial"])
    ELSE MethodNone

\* the three public endpoints (lines 177-181)
Endpoints == 1..3

\* _try_public_apis (lines 171-228): the endpoints in turn; the first that
\* answers 200 with a follower count gives the record
TryPublicApis(self, username, answers) ==
    IF \E e \in Endpoints : answers[e] = "200_followers"
    THEN MethodReturns(
            [username |-> username, followers |-> RemoteAccount.followers_count,
             following |-> 0, total_posts |-> 0, is_verified |-> FALSE,
             is_private |-> FALSE, has_profile_pic |-> TRUE, biography |-> Text(20),
             account_age_days |-> 365, profile_pic_url |-> << >>,
             scraped |-> TRUE, method |-> "public_api"])
    ELSE MethodNone

\* the four user agents (lines 236-241)
UserAgents == 1..4

\* _try_proxy_scraping (lines 230-314): one request per user agent; a 200
\* answer is parsed with bs4, whose import fails where it is not installed;
\* a 429, a page without counts and an exception move on to the next
TryProxyScraping(self, username, answers) ==
    IF answers.bs4 = "installed" /\ \E a \in UserAgents : answers.pages[a] = "200_profile"
    THEN MethodReturns(
            [username |-> username, followers |-> RemoteAccount.followers_count,
             following |-> RemoteAccount.follows_count,
             total_posts |-> RemoteAccount.media_count, is_verified |-> FALSE,
             is_private |-> FALSE, has_profile_pic |-> TRUE, biography |-> Text(20),
             account_age_days |-> 365, profile_pic_url |-> << >>,
             scraped |-> TRUE, method |-> "proxy_scraping"])
    ELSE MethodNone

\* the methods in the order get_profile_real_data lists them
ApiMethods == <<"basic_display_api", "graph_api", "public_apis", "proxy_scraping">>

\* if self.access_token (line 33); if self.app_id and self.app_secret (line 39)
HasAccessToken(self) == self.access_token # ""
HasAppCredentials(self) == self.app_id # "" /\ self.app_secret # ""

Invocation(method, o) == [method |-> method, found |-> o.found]

ApiResult(o, trace) == [found |-> o.found, value |-> o.value, trace |-> trace]

GetProfileRealDataEitherAppCredential(self, username, env) ==
    LET basic  == TryBasicDisplayApi(self, username, env.basic)
        graph  == TryGraphApi(self, username, env.graph)
        public == TryPublicApis(self, username, env.public)
        proxy  == TryProxyScraping(self, username, env.proxy)
        t1 == IF HasAccessToken(self) THEN <<Invocation(ApiMethods[1], basic)>> ELSE << >>
        t2 == t1 \o (IF self.app_id # "" \/ self.app_secret # ""
                     THEN <<Invocation(ApiMethods[2], graph)>> ELSE << >>)
        t3 == t2 \o <<Invocation(ApiMethods[3], public)>>
        t4 == t3 \o <<Invocation(ApiMethods[4], proxy)>>
    IN  IF HasAccessToken(self) /\ basic.found THEN ApiResult(basic, t1)
        ELSE IF (self.app_id # "" \/ self.app_secret # "") /\ graph.found
        THEN ApiResult(graph, t2)
        ELSE IF public.found THEN ApiResult(public, t3)
        ELSE IF proxy.found THEN ApiResult(proxy, t4)
        ELSE ApiResult(MethodNone, t4)

\* get_profile_real_data (lines 28-55)
GetProfileRealData(self, username, env) ==
    LET basic  == TryBasicDisplayApi(self, username, env.basic)
        graph  == TryGraphApi(self, username, env.graph)
        public == TryPublicApis(self, username, env.public)
        proxy  == TryProxyScraping(self, username, env.proxy)
        t1 == IF HasAccessToken(self) THEN <<Invocation(ApiMethods[1], basic)>> ELSE << >>
        t2 == t1 \o (IF HasAppCredentials(self)
                     THEN <<Invocation(ApiMethods[2], graph)>> ELSE << >>)
        t3 == t2 \o <<Invocation(ApiMethods[3], public)>>
        t4 == t3 \o <<Invocation(ApiMethods[4], proxy)>>
    IN  IF HasAccessToken(self) /\ basic.found THEN ApiResult(basic, t1)
        ELSE IF HasAppCredentials(self) /\ graph.found THEN ApiResult(graph, t2)
        ELSE IF public.found THEN ApiResult(public, t3)
        ELSE IF proxy.found THEN ApiResult(proxy, t4)
        ELSE ApiResult(MethodNone, t4)

\* setup_api_credentials (lines 316-336): only the arguments that are not
\* empty replace the stored credential
SetupCredentials(self, access_token, app_id, app_secret) ==
    [access_token |-> IF access_token # "" THEN access_token ELSE self.access_token,
     app_id       |-> IF app_id # "" THEN app_id ELSE self.app_id,
     app_secret   |-> IF app_secret # "" THEN app_secret ELSE self.app_secret]

(***************************************************************************)
(* The API integration constructed, configured and called                  *)
(***************************************************************************)
ApiNames == {NameJohn, NameJaneDoe}

\* os.getenv(..., '') in __init__ (lines 14-16)
Credentials == {"", Configured}

\* the answers of the services one method consults; "unused" where the
\* method, or the request, is not reached
BasicUnused == [search |-> "unused", details |-> "unused"]
BasicAnswers ==
    { [search |-> a, details |-> "unused"] : a \in {"timeout", "403", "200_no_match"} }
    \cup { [search |-> "200_match", details |-> d] : d \in {"timeout", "403", "200"} }

GraphUnused == [token |-> "unused", oembed |-> "unused"]
GraphAnswers ==
    { [token |-> a, oembed |-> "unused"] : a \in {"timeout", "400"} }
    \cup { [token |-> "200", oembed |-> d] : d \in {"timeout", "400", "200"} }

PublicUnused == [e \in Endpoints |-> "unused"]
PublicAnswers == [Endpoints -> {"timeout", "200_other", "200_followers"}]

ProxyUnused == [pages |-> [a \in UserAgents |-> "unused"], bs4 |-> "unused"]
ProxyAnswers ==
    { [pages |-> pg, bs4 |-> b] :
        pg \in [UserAgents -> {"429", "200_profile"}], b \in {"installed", "missing"} }
    \ { [pages |-> [a \in UserAgents |-> "429"], bs4 |-> "missing"] }

ApiInit ==
    /\ api \in [access_token : Credentials, app_id : Credentials, app_secret : Credentials]
    /\ fetch = NoFetch
    /\ IdleScorer
    /\ IdlePipeline
    /\ IdleWeb
    /\ IdleRace

\* api.setup_api_credentials(...)
SetupApiCredentials ==
    /\ fetch = NoFetch
    /\ \E access_token \in Credentials, app_id \in Credentials, app_secret \in Credentials :
         api' = SetupCredentials(api, access_token, app_id, app_secret)
    /\ UNCHANGED <<fetch, scorerVars, pipelineVars, webVars, raceVars>>

\* api.get_profile_real_data(username)
GetProfileRealDataCall ==
    /\ fetch = NoFetch
    /\ \E username \in ApiNames :
       \E basic \in IF HasAccessToken(api) THEN BasicAnswers ELSE {BasicUnused} :
       \E graph \in IF HasAppCredentials(api)
                       /\ ~TryBasicDisplayApi(api, username, basic).found
                    THEN GraphAnswers ELSE {GraphUnused} :
       \E public \in IF ~TryBasicDisplayApi(api, username, basic).found
                        /\ ~TryGraphApi(api, username, graph).found
                     THEN PublicAnswers ELSE {PublicUnused} :
       \E proxy \in IF ~TryBasicDisplayApi(api, username, basic).found
                       /\ ~TryGraphApi(api, username, graph).found
                       /\ ~TryPublicApis(api, username, public).found
                    THEN ProxyAnswers ELSE {ProxyUnused} :
         LET env == [basic |-> basic, graph |-> graph, public |-> public, proxy |-> proxy]
             o   == GetProfileRealData(api, username, env)
         IN  fetch' = [call |-> "get_profile_real_data", username |-> username,
                       api |-> api, env |-> env, found |-> o.found,
                       value |-> o.value, trace |-> o.trace]
    /\ UNCHANGED <<api, scorerVars, pipelineVars, webVars, raceVars>>

ApiNext == SetupApiCredentials \/ GetProfileRealDataCall

ApiSpec == ApiInit /\ [][ApiNext]_vars

(***************************************************************************)
(* Properties of get_profile_real_data (checked under ApiSpec)             *)
(***************************************************************************)
ApiReturned == fetch.call = "get_profile_real_data"

\* the methods the call invoked, in order
InvokedMethods == [i \in 1..Len(fetch.trace) |-> fetch.trace[i].method]

\* the credentials a method needs were configured when the call was made
CredentialsPresent(method) ==
    CASE method = "basic_display_api" -> fetch.api.access_token # ""
      [] method = "graph_api" -> fetch.api.app_id # "" /\ fetch.api.app_secret # ""
      [] OTHER -> TRUE

\* the `method` tag of the record each method yields
TagOf(method) ==
    CASE method = "basic_display_api" -> "basic_display_api"
      [] method = "graph_api" -> "graph_api_partial"
      [] method = "public_apis" -> "public_api"
      [] OTHER -> "proxy_scraping"

\* the methods the call may attempt, in their fixed order
Attemptable == SelectSeq(ApiMethods, CredentialsPresent)

\* C25: get_profile_real_data tries its methods in the fixed order Basic
\* Display API (only with an access token), Graph API (only with both app id
\* and app secret), public endpoints, proxy-rotated scraping; it returns the
\* record of the first method that yields one without invoking the later
\* ones, never invokes a method whose credentials are absent, and returns
\* None only when all attempted methods failed.
C25_MethodsInOrderFirstRecordWins ==
    ApiReturned =>
        /\ IsPrefix(InvokedMethods, Attemptable)
        /\ \A i \in 1..Len(fetch.trace) : CredentialsPresent(fetch.trace[i].method)
        /\ \A i \in 1..(Len(fetch.trace) - 1) : ~fetch.trace[i].found
        /\ fetch.found =>
              /\ fetch.trace[Len(fetch.trace)].found
              /\ fetch.value.method = TagOf(fetch.trace[Len(fetch.trace)].method)
        /\ ~fetch.found =>
              /\ fetch.value = None
              /\ InvokedMethods = Attemptable
              /\ \A i \in 1..Len(fetch.trace) : ~fetch.trace[i].found

\* C25 reached: with an access token and an app id but no app secret, the
\* Basic Display API failed, the Graph API was passed over, the public
\* endpoints gave the record and the proxy scraping was not invoked
C25_Witness_GraphSkippedPublicWins ==
    /\ ApiReturned
    /\ fetch.api.access_token # ""
    /\ fetch.api.app_id # ""
    /\ fetch.api.app_secret = ""
    /\ InvokedMethods = <<"basic_display_api", "public_apis">>
    /\ fetch.found
    /\ fetch.value.method = "public_api"

====
